---- MODULE Spec2Model ----
(***************************************************************************)
(* Model of the Pixel Clock web client (script.js): the status poll        *)
(* def_fetch with its edit-protection window, saveSettings, and the alarm  *)
(* manager (fetchAlarms, toggleAlarmEnabled, the alarm modal, saveAlarm).  *)
(* The clock firmware that answers /api/status, /api/settings and          *)
(* /api/alarms is not part of the client sources; it is modelled from the  *)
(* design document (ConfigSyncGate, AlarmStore).                           *)
(***************************************************************************)
EXTENDS Integers, Sequences, FiniteSets, TLC

\* ------------------------------------------------------------------------
\* Bounds of the exploration
\* ------------------------------------------------------------------------
MaxAdvances == 2
MaxPolls == 2
MaxSaves == 1
MaxEdits == 1

\* ------------------------------------------------------------------------
\* Program constants
\* ------------------------------------------------------------------------
UNSAVED_TIMEOUT == 30000
POLL_INTERVAL == 1000
\* Date.now() when the page is loaded (any instant later than UNSAVED_TIMEOUT
\* after the epoch; lastEditTime starts at 0).
StartTime == 100000

\* The clock steps of the exploration: one poll period and one protection
\* window, so that an edit is followed by instants inside, at the very end of
\* and past the window.
ClockSteps == {POLL_INTERVAL, UNSAVED_TIMEOUT}

FocusTags == {"BODY", "INPUT", "SELECT"}

\* ids of the settings inputs def_fetch refreshes and saveSettings reads
SettingsInputs ==
    {"brightness", "color_digits", "color_colon", "color_seconds",
     "format_mode", "twelve_hour", "timezone_offset", "blink_colon",
     "rotation"}

\* ------------------------------------------------------------------------
\* JavaScript conversions
\* ------------------------------------------------------------------------
\* A number that may be NaN (parseInt of a non-numeric string).
Num(n) == [nan |-> FALSE, val |-> n]
NaN == [nan |-> TRUE, val |-> 0]

\* String(n) for the integers that occur
NumStr(n) ==
    CASE n = 0 -> "0"
      [] n = 1 -> "1"
      [] n = 2 -> "2"
      [] n = -5 -> "-5"
      [] n = 60 -> "60"
      [] OTHER -> "?"

\* parseInt(s)
ParseInt(s) ==
    CASE s = "0" -> Num(0)
      [] s = "1" -> Num(1)
      [] s = "2" -> Num(2)
      [] s = "-5" -> Num(-5)
      [] s = "60" -> Num(60)
      [] OTHER -> NaN

\* a faulty variant: Math.floor in place of Math.round
FloorPercent(b) == b \div 10

\* Brightness fractions are kept in thousandths (0.255 is 255).
\* Math.round(b * 100) for a fraction b >= 0
RoundPercent(b) == (b + 5) \div 10

\* value / 100 for an integer input value
PercentToFraction(v) == v * 10

\* String(n).padStart(2, '0') as the sequence of its digits
Pad2(n) == IF n < 10 THEN <<0, n>> ELSE <<n \div 10, n % 10>>

\* `${h}:${m}:${s}`
ClockText(time) == <<Pad2(time[1]), Pad2(time[2]), Pad2(time[3])>>

\* ------------------------------------------------------------------------
\* The clock firmware (design document, sections 4.4 and 6)
\* ------------------------------------------------------------------------
\* the wall clock published in /api/status
TimeOf(t) ==
    LET s == t \div 1000
    IN  <<(s \div 3600) % 24, (s \div 60) % 60, s % 60>>

LegacyKeys ==
    {"time", "brightness", "color", "colon_color", "mode", "twelve_hour"}

FullKeys ==
    LegacyKeys \cup {"date", "seconds_color", "timezone_offset", "blink_mode",
                     "rotation", "logs"}

\* LiveConfig as the clock starts
InitConfig ==
    [brightness |-> 255,
     color |-> "#ff0000",
     colon_color |-> "#ffff00",
     seconds_color |-> "#0000ff",
     mode |-> 0,
     twelve_hour |-> FALSE,
     timezone_offset |-> 0,
     blink_mode |-> 1,
     rotation |-> FALSE]

\* the calendar date published in /api/status
DateOf(t) ==
    LET d == t \div 86400000
    IN  [wday |-> (d + 3) % 7, month |-> 1, day |-> d + 1, year |-> 1970]

\* the persistent log lines published in /api/status: none until the
\* configuration has been changed
LogsOf(cfg) ==
    IF cfg = InitConfig THEN <<>> ELSE <<"Settings updated">>

\* GET /api/status: the snapshot of LiveConfig a firmware of level `level`
\* publishes at instant t
StatusOf(cfg, level, t) ==
    [keys |-> IF level = "full" THEN FullKeys ELSE LegacyKeys,
     time |-> TimeOf(t),
     date |-> DateOf(t),
     logs |-> LogsOf(cfg),
     brightness |-> cfg.brightness,
     color |-> cfg.color,
     colon_color |-> cfg.colon_color,
     seconds_color |-> cfg.seconds_color,
     mode |-> cfg.mode,
     twelve_hour |-> cfg.twelve_hour,
     timezone_offset |-> cfg.timezone_offset,
     blink_mode |-> cfg.blink_mode,
     rotation |-> cfg.rotation]

\* apply_edit's validation of every field against its domain
ValidEdit(s) ==
    /\ s.brightness >= 0 /\ s.brightness <= 1000
    /\ ~s.mode.nan /\ s.mode.val \in 0..2
    /\ ~s.timezone_offset.nan /\ s.timezone_offset.val \in -12..14
    /\ s.colon_blink_mode \in {0, 1}

\* LiveConfig after an accepted edit
ApplyEdit(cfg, s) ==
    [brightness |-> s.brightness,
     color |-> s.color,
     colon_color |-> s.colon_color,
     seconds_color |-> s.seconds_color,
     mode |-> s.mode.val,
     twelve_hour |-> s.twelve_hour,
     timezone_offset |-> s.timezone_offset.val,
     blink_mode |-> s.colon_blink_mode,
     rotation |-> s.rotation]

\* ------------------------------------------------------------------------
\* The page
\* ------------------------------------------------------------------------
\* the settings inputs as the page is loaded, before the first refresh
InitInputs ==
    [bri_val |-> 50,
     brightness |-> 50,
     color_digits |-> "#000000",
     color_colon |-> "#000000",
     color_seconds |-> "#000000",
     format_mode |-> "0",
     twelve_hour |-> "false",
     timezone_offset |-> "0",
     blink_colon |-> FALSE,
     rotation |-> FALSE]

\* the values the user gives an input in the exploration
UserChoice(f) ==
    CASE f = "brightness" -> {80, 150}
      [] f = "color_seconds" -> {"#00ff00"}
      [] f = "twelve_hour" -> {"true"}
      [] OTHER -> {}

\* ------------------------------------------------------------------------
\* State
\* ------------------------------------------------------------------------
VARIABLES
    now,             \* Date.now()
    advances,        \* clock steps taken
    lastTimerFire,   \* instant of the last setInterval callback
    lastEditTime,    \* script variable lastEditTime
    inputs,          \* values of the settings inputs (and the bri-val label)
    unsavedIcon,     \* 'unsaved-icon' carries class 'visible'
    activeTag,       \* document.activeElement.tagName
    lastLog,         \* last message passed to log()
    clockPreview,    \* text of 'clock-preview'
    datePreview,     \* text of 'date-preview'
    statusLog,       \* lines of 'status-log'
    statusRequests,  \* GET /api/status requests not yet answered
    statusResponses, \* status responses not yet received by def_fetch
    nextSeq,         \* def_fetch cycles started so far
    shownSeq,        \* cycle whose response the page shows
    saveRequests,    \* POST /api/settings requests not yet handled
    saveReplies,     \* replies to POST /api/settings not yet received
    nSaves,          \* saveSettings calls so far
    nEdits,          \* input/change events so far
    server,          \* LiveConfig of the clock
    apiLevel,        \* which status fields the firmware publishes
    lastChange,      \* the last input/change event on a settings input
    confirmedNo,     \* number of the last edit covered by an accepted save
    step             \* what the step that led to this state did

settingsVars ==
    <<now, advances, lastTimerFire, lastEditTime, inputs, unsavedIcon,
      activeTag, lastLog, clockPreview, datePreview, statusLog, statusRequests,
      statusResponses, nextSeq, shownSeq, saveRequests, saveReplies, nSaves,
      nEdits, server, apiLevel, lastChange, confirmedNo, step>>



\* the alarm manager
VARIABLES
    alarms,          \* script variable alarms
    rendered,        \* the list as renderAlarms last drew it
    currentAlarmId,  \* script variable currentAlarmId ("" is null)
    openedId,        \* the argument of the last openAlarmModal call
    selectedDays,    \* script variable selectedDays
    dayButtons,      \* days whose button carries class 'selected'
    modal,           \* the alarm modal: visibility and its fields
    store,           \* the clock's AlarmStore
    added,           \* records the store has added
    alarmRequests,   \* POST /api/alarms requests not yet handled
    alarmReplies,    \* replies to POST /api/alarms not yet received
    listRequests,    \* GET /api/alarms requests not yet answered
    listResponses,   \* alarm lists not yet received by fetchAlarms
    nRequests,       \* saveAlarmRequest calls so far
    nFetches,        \* fetchAlarms calls so far
    nModalOps,       \* user operations on the modal so far
    lastAlert,       \* text of the last alert()
    astep            \* what the step that led to this state did

alarmVars ==
    <<alarms, rendered, currentAlarmId, openedId, selectedDays, dayButtons,
      modal, store, added, alarmRequests, alarmReplies, listRequests,
      listResponses, nRequests, nFetches, nModalOps, lastAlert, astep>>

vars == <<settingsVars, alarmVars>>

\* the record of a step that neither processes a status response nor completes
\* a save
OtherStep ==
    [op |-> "other", seq |-> 0, stale |-> FALSE, written |-> {},
     data |-> StatusOf(InitConfig, "full", 0), outcome |-> ""]

\* ------------------------------------------------------------------------
\* def_fetch
\* ------------------------------------------------------------------------
Has(data, k) == k \in data.keys

\* a faulty variant: the timeout taken for seconds, the clock in milliseconds
WindowLapsedSeconds(t, lastEdit) == t - lastEdit > UNSAVED_TIMEOUT \div 1000

\* Date.now() - lastEditTime > UNSAVED_TIMEOUT
WindowLapsed(t, lastEdit) == t - lastEdit > UNSAVED_TIMEOUT

\* a faulty variant: the guard looks for INPUT only
FocusAllowsSelect(tag) == tag # "INPUT"

\* activeElement.tagName !== 'INPUT' && activeElement.tagName !== 'SELECT'
FocusAllows(tag) == tag # "INPUT" /\ tag # "SELECT"

\* the inputs the refresh branch of def_fetch assigns for a response
RefreshedInputs(data) ==
    {"brightness", "color_digits", "color_colon", "format_mode",
     "twelve_hour"}
    \cup (IF Has(data, "seconds_color") /\ data.seconds_color # ""
          THEN {"color_seconds"} ELSE {})
    \cup (IF Has(data, "timezone_offset") THEN {"timezone_offset"} ELSE {})
    \cup (IF Has(data, "blink_mode") THEN {"blink_colon"} ELSE {})
    \cup (IF Has(data, "rotation") THEN {"rotation"} ELSE {})

\* the inputs after the refresh branch of def_fetch
RefreshInputs(inp, data) ==
    [bri_val |-> RoundPercent(data.brightness),
     brightness |-> RoundPercent(data.brightness),
     color_digits |-> data.color,
     color_colon |-> data.colon_color,
     color_seconds |->
         IF Has(data, "seconds_color") /\ data.seconds_color # ""
         THEN data.seconds_color ELSE inp.color_seconds,
     format_mode |-> NumStr(data.mode),
     twelve_hour |-> IF data.twelve_hour THEN "true" ELSE "false",
     timezone_offset |->
         IF Has(data, "timezone_offset")
         THEN NumStr(data.timezone_offset) ELSE inp.timezone_offset,
     blink_colon |->
         IF Has(data, "blink_mode")
         THEN data.blink_mode > 0 ELSE inp.blink_colon,
     rotation |->
         IF Has(data, "rotation") THEN data.rotation ELSE inp.rotation]

DayNames == <<"Mon", "Tue", "Wed", "Thu", "Fri", "Sat", "Sun">>

MonthNames ==
    <<"Jan", "Feb", "Mar", "Apr", "May", "Jun", "Jul", "Aug", "Sep", "Oct",
      "Nov", "Dec">>

\* `${wdayStr}, ${monStr} ${data.date.day}, ${data.date.year}`
DateText(date) ==
    <<IF date.wday \in 0..6 THEN DayNames[date.wday + 1] ELSE "???",
      IF date.month \in 1..12 THEN MonthNames[date.month] ELSE "???",
      date.day, date.year>>

\* the content def_fetch gives 'status-log' for the lines of a response
LogText(logs) ==
    IF Len(logs) > 0 THEN logs
    ELSE <<"[System] No persistent logs found.">>

\* the clock, date and log panes as the statements of def_fetch outside the
\* edit-window branch leave them
PanesOf(old, data) ==
    [clock |-> ClockText(data.time),
     date |-> IF Has(data, "date") THEN DateText(data.date) ELSE <<>>,
     log |-> IF Has(data, "logs") THEN LogText(data.logs) ELSE old.log]

\* a faulty variant: the panes refreshed only once the edit window has lapsed
ShownPanesGated(old, data, lapsed) ==
    IF lapsed THEN PanesOf(old, data) ELSE old

\* the panes after def_fetch has processed a response, whatever the state of
\* the edit window
ShownPanes(old, data, lapsed) == PanesOf(old, data)

\* setInterval(def_fetch, 1000): a callback, no sooner than one period after
\* the previous one; def_fetch runs up to its first await and the request is
\* issued
TimerFire ==
    /\ nextSeq < MaxPolls
    /\ now - lastTimerFire >= POLL_INTERVAL
    /\ lastTimerFire' = now
    /\ nextSeq' = nextSeq + 1
    /\ statusRequests' =
           statusRequests \cup {[seq |-> nextSeq + 1, stale |-> FALSE]}
    /\ step' = OtherStep
    /\ UNCHANGED <<now, advances, lastEditTime, inputs, unsavedIcon, activeTag,
                   lastLog, clockPreview, datePreview, statusLog,
                   statusResponses, shownSeq, saveRequests, saveReplies,
                   nSaves, nEdits, server, apiLevel, lastChange, confirmedNo>>

\* the clock answers a status request
ServerStatus(r) ==
    /\ statusRequests' = statusRequests \ {r}
    /\ statusResponses' = statusResponses \cup
           {[seq |-> r.seq, stale |-> r.stale,
             data |-> StatusOf(server, apiLevel, now)]}
    /\ step' = OtherStep
    /\ UNCHANGED <<now, advances, lastTimerFire, lastEditTime, inputs,
                   unsavedIcon, activeTag, lastLog, clockPreview, datePreview,
                   statusLog, nextSeq, shownSeq, saveRequests, saveReplies,
                   nSaves, nEdits, server, apiLevel, lastChange, confirmedNo>>

\* def_fetch after its awaits: the response is applied to the page
ProcessStatus(p) ==
    LET lapsed == WindowLapsed(now, lastEditTime)
        refresh == lapsed /\ FocusAllows(activeTag)
        panes == ShownPanes([clock |-> clockPreview, date |-> datePreview,
                            log |-> statusLog], p.data, lapsed)
    IN  /\ statusResponses' = statusResponses \ {p}
        /\ clockPreview' = panes.clock
        /\ datePreview' = panes.date
        /\ statusLog' = panes.log
        /\ shownSeq' = p.seq
        /\ unsavedIcon' = IF lapsed THEN FALSE ELSE unsavedIcon
        /\ inputs' = IF refresh THEN RefreshInputs(inputs, p.data) ELSE inputs
        /\ step' =
               [op |-> "process", seq |-> p.seq, stale |-> p.stale,
                written |-> IF refresh THEN RefreshedInputs(p.data) ELSE {},
                data |-> p.data, outcome |-> ""]
        /\ UNCHANGED <<now, advances, lastTimerFire, lastEditTime, activeTag,
                       lastLog, statusRequests, nextSeq, saveRequests,
                       saveReplies, nSaves, nEdits, server, apiLevel,
                       lastChange, confirmedNo>>

\* fetch('/api/status') rejects: def_fetch's catch only logs to the console
StatusFails(r) ==
    /\ statusRequests' = statusRequests \ {r}
    /\ step' = OtherStep
    /\ UNCHANGED <<now, advances, lastTimerFire, lastEditTime, inputs,
                   unsavedIcon, activeTag, lastLog, clockPreview, datePreview,
                   statusLog, statusResponses, nextSeq, shownSeq, saveRequests,
                   saveReplies, nSaves, nEdits, server, apiLevel, lastChange,
                   confirmedNo>>

\* ------------------------------------------------------------------------
\* markDirty and the user
\* ------------------------------------------------------------------------
\* an input or change event on a settings input: the listener is markDirty
EditInput(f, v) ==
    /\ nEdits < MaxEdits
    /\ inputs[f] # v
    /\ inputs' = [inputs EXCEPT ![f] = v]
    /\ lastEditTime' = now
    /\ unsavedIcon' = TRUE
    /\ nEdits' = nEdits + 1
    /\ lastChange' =
           [field |-> f, at |-> now, no |-> nEdits + 1,
            inputs |-> inputs']
    /\ step' = OtherStep
    /\ UNCHANGED <<now, advances, lastTimerFire, activeTag, lastLog,
                   clockPreview, datePreview, statusLog, statusRequests,
                   statusResponses, nextSeq, shownSeq, saveRequests,
                   saveReplies, nSaves, server, apiLevel, confirmedNo>>

\* the focus moves to another element
FocusChange(tag) ==
    /\ tag # activeTag
    /\ activeTag' = tag
    /\ step' = OtherStep
    /\ UNCHANGED <<now, advances, lastTimerFire, lastEditTime, inputs,
                   unsavedIcon, lastLog, clockPreview, datePreview, statusLog,
                   statusRequests, statusResponses, nextSeq, shownSeq,
                   saveRequests, saveReplies, nSaves, nEdits, server, apiLevel,
                   lastChange, confirmedNo>>

\* time passes
Advance(d) ==
    /\ advances < MaxAdvances
    /\ advances' = advances + 1
    /\ now' = now + d
    /\ step' = OtherStep
    /\ UNCHANGED <<lastTimerFire, lastEditTime, inputs, unsavedIcon, activeTag,
                   lastLog, clockPreview, datePreview, statusLog,
                   statusRequests, statusResponses, nextSeq, shownSeq,
                   saveRequests, saveReplies, nSaves, nEdits, server, apiLevel,
                   lastChange, confirmedNo>>

\* ------------------------------------------------------------------------
\* saveSettings
\* ------------------------------------------------------------------------
\* the settings object saveSettings builds from the inputs
ReadSettings(inp) ==
    [brightness |-> PercentToFraction(inp.brightness),
     color |-> inp.color_digits,
     colon_color |-> inp.color_colon,
     seconds_color |-> inp.color_seconds,
     mode |-> ParseInt(inp.format_mode),
     twelve_hour |-> (inp.twelve_hour = "true"),
     colon_blink_mode |-> IF inp.blink_colon THEN 1 ELSE 0,
     rotation |-> inp.rotation,
     timezone_offset |-> ParseInt(inp.timezone_offset)]

\* saveSettings up to its await: the settings are read and posted
SaveStart ==
    /\ nSaves < MaxSaves
    /\ nSaves' = nSaves + 1
    /\ lastLog' = "Saving settings..."
    /\ saveRequests' = saveRequests \cup
           {[id |-> nSaves + 1, settings |-> ReadSettings(inputs),
             editNo |-> nEdits]}
    /\ step' = OtherStep
    /\ UNCHANGED <<now, advances, lastTimerFire, lastEditTime, inputs,
                   unsavedIcon, activeTag, clockPreview, datePreview,
                   statusLog, statusRequests, statusResponses, nextSeq,
                   shownSeq, saveReplies, nEdits, server, apiLevel, lastChange,
                   confirmedNo>>

\* the clock handles POST /api/settings through apply_edit: an invalid edit is
\* rejected whole; a valid one is applied unless persisting it fails
ServerSettings(q, persisted) ==
    LET accepted == ValidEdit(q.settings) /\ persisted
    IN  /\ saveRequests' = saveRequests \ {q}
        /\ server' = IF accepted THEN ApplyEdit(server, q.settings) ELSE server
        /\ saveReplies' = saveReplies \cup
               {[id |-> q.id, settings |-> q.settings, editNo |-> q.editNo,
                 ok |-> accepted]}
        /\ step' = OtherStep
        /\ UNCHANGED <<now, advances, lastTimerFire, lastEditTime, inputs,
                       unsavedIcon, activeTag, lastLog, clockPreview,
                       datePreview, statusLog, statusRequests, statusResponses,
                       nextSeq, shownSeq, nSaves, nEdits, apiLevel, lastChange,
                       confirmedNo>>

\* what the continuation of saveSettings makes of a reply fetch resolved
\* with: TRUE when it takes it for a success (the reply is never inspected)
TakenAsSaved(ok) == TRUE

Stale(set) == {[x EXCEPT !.stale = TRUE] : x \in set}

\* saveSettings after its await, fetch resolved
SaveResolves(r) ==
    LET saved == TakenAsSaved(r.ok)
    IN  /\ nextSeq < MaxPolls
        /\ saveReplies' = saveReplies \ {r}
        /\ lastLog' = IF saved THEN "Settings saved."
                      ELSE "Error saving settings."
        /\ lastEditTime' = IF saved THEN 0 ELSE lastEditTime
        /\ unsavedIcon' = IF saved THEN FALSE ELSE unsavedIcon
        /\ nextSeq' = IF saved THEN nextSeq + 1 ELSE nextSeq
        /\ statusRequests' =
               IF saved
               THEN Stale(statusRequests)
                    \cup {[seq |-> nextSeq + 1, stale |-> FALSE]}
               ELSE statusRequests
        /\ statusResponses' =
               IF saved THEN Stale(statusResponses) ELSE statusResponses
        /\ confirmedNo' = IF r.ok /\ r.editNo > confirmedNo
                          THEN r.editNo ELSE confirmedNo
        /\ step' = [OtherStep EXCEPT
                      !.op = "save", !.seq = r.id,
                      !.outcome = IF r.ok THEN "ok" ELSE "error"]
        /\ UNCHANGED <<now, advances, lastTimerFire, inputs, activeTag,
                       clockPreview, datePreview, statusLog, shownSeq,
                       saveRequests, nSaves, nEdits, server, apiLevel,
                       lastChange>>

\* saveSettings after its await, fetch rejected: the request was lost in
\* transport
SaveRejects(id) ==
    /\ lastLog' = "Error saving settings."
    /\ step' = [OtherStep EXCEPT
                  !.op = "save", !.seq = id, !.outcome = "failed"]
    /\ UNCHANGED <<now, advances, lastTimerFire, lastEditTime, inputs,
                   unsavedIcon, activeTag, clockPreview, datePreview,
                   statusLog, statusRequests, statusResponses, nextSeq,
                   shownSeq, nSaves, nEdits, server, apiLevel, lastChange,
                   confirmedNo>>

RequestLost(q) ==
    /\ saveRequests' = saveRequests \ {q}
    /\ UNCHANGED saveReplies
    /\ SaveRejects(q.id)

\* ------------------------------------------------------------------------
\* Specification of the settings page
\* ------------------------------------------------------------------------
\* the page just loaded: setInterval is armed and the first def_fetch has
\* issued its request
SettingsInit ==
    /\ now = StartTime
    /\ advances = 0
    /\ lastTimerFire = StartTime
    /\ lastEditTime = 0
    /\ inputs = InitInputs
    /\ unsavedIcon = FALSE
    /\ activeTag = "BODY"
    /\ lastLog = ""
    /\ clockPreview = <<>>
    /\ datePreview = <<>>
    /\ statusLog = <<>>
    /\ statusRequests = {[seq |-> 1, stale |-> FALSE]}
    /\ statusResponses = {}
    /\ nextSeq = 1
    /\ shownSeq = 0
    /\ saveRequests = {}
    /\ saveReplies = {}
    /\ nSaves = 0
    /\ nEdits = 0
    /\ server = InitConfig
    /\ apiLevel \in {"full", "legacy"}
    /\ lastChange = [field |-> "", at |-> 0, no |-> 0,
                     inputs |-> InitInputs]
    /\ confirmedNo = 0
    /\ step = OtherStep

\* ------------------------------------------------------------------------
\* Alarm manager: records and the clock's AlarmStore (design document, 4.1)
\* ------------------------------------------------------------------------
MaxRequests == 1
MaxFetches == 2
MaxModalOps == 3

TEXT_LIMIT == 250

Days == 0..6

\* the id AlarmStore.add gives its k-th new record
NewId(k) == IF k = 1 THEN "n1" ELSE IF k = 2 THEN "n2" ELSE "n3"

\* An alarm as JSON carries it: `keys` names the members of schedule that are
\* present; an absent member holds a filler value.
StoredDaily ==
    [id |-> "a1", enabled |-> TRUE, name |-> "Wake", type |-> "repetitive",
     schedule |-> [keys |-> {"time", "frequency", "days"}, time |-> "08:30",
                   frequency |-> "daily", days |-> <<0, 1>>, date |-> ""],
     action |-> [type |-> "scroll", duration_type |-> "seconds",
                 duration_sec |-> 60,
                 payload |-> [text |-> 5, color |-> "#ff0000",
                              brightness |-> 10]]]

StoredOneShot ==
    [id |-> "a2", enabled |-> FALSE, name |-> "", type |-> "oneshot",
     schedule |-> [keys |-> {"time", "date"}, time |-> "07:00",
                   frequency |-> "", days |-> <<>>, date |-> "2025-12-24"],
     action |-> [type |-> "blink", duration_type |-> "loops",
                 duration_sec |-> 2,
                 payload |-> [text |-> 0, color |-> "#00ff00",
                              brightness |-> 5]]]

InitStore == <<StoredDaily, StoredOneShot>>

\* position of the record with this id, 0 when there is none
IndexOf(list, id) ==
    IF \E i \in 1..Len(list) : list[i].id = id
    THEN CHOOSE i \in 1..Len(list) :
             /\ list[i].id = id
             /\ \A j \in 1..(i - 1) : list[j].id # id
    ELSE 0

RemoveAt(list, i) == SubSeq(list, 1, i - 1) \o SubSeq(list, i + 1, Len(list))

\* add/update validate the schedule against the kind
CompleteSchedule(a) ==
    CASE a.type = "oneshot" -> "date" \in a.schedule.keys
      [] a.type = "repetitive" /\ "frequency" \in a.schedule.keys
         /\ a.schedule.frequency = "daily" -> "days" \in a.schedule.keys
      [] a.type = "repetitive" /\ "frequency" \in a.schedule.keys
         /\ a.schedule.frequency = "hourly" -> "time" \in a.schedule.keys
      [] OTHER -> FALSE

\* the request is accepted by AlarmStore
StoreAccepts(st, cmd, id, alarm) ==
    CASE cmd = "add" -> CompleteSchedule(alarm)
      [] cmd = "update" -> IndexOf(st, id) # 0 /\ CompleteSchedule(alarm)
      [] OTHER -> IndexOf(st, id) # 0

\* the store after an accepted request; k new records were added before
StoreApply(st, cmd, id, alarm, k) ==
    CASE cmd = "add" -> Append(st, [alarm EXCEPT !.id = NewId(k + 1)])
      [] cmd = "update" -> [st EXCEPT ![IndexOf(st, id)] = alarm]
      [] OTHER -> RemoveAt(st, IndexOf(st, id))

\* ------------------------------------------------------------------------
\* Alarm manager: steps
\* ------------------------------------------------------------------------
NoPayload == [StoredOneShot EXCEPT !.id = ""]

OtherAlarmStep ==
    [op |-> "other", origin |-> "", cmd |-> "", id |-> "",
     submitted |-> FALSE, freq |-> "", actionType |-> "", text |-> 0,
     payload |-> NoPayload, before |-> <<>>, refetched |-> FALSE]

\* new Date().toISOString().split('T')[0]
Today == "2026-01-01"

\* the modal's fields as openAlarmModal resets them
ResetModal ==
    [visible |-> FALSE, title |-> "", deleteShown |-> FALSE, name |-> "",
     time |-> "07:00", freq |-> "daily", date |-> Today,
     actionType |-> "scroll", text |-> 0, color |-> "#ff0000",
     duration |-> "60", brightness |-> 10, briLabel |-> 10,
     durType |-> "seconds", daysShown |-> TRUE, dateShown |-> FALSE,
     textShown |-> TRUE, durationLabel |-> "Value (Sec)"]

\* toggleAlarmType, toggleActionType and toggleDurationType
ToggleSections(m) ==
    [m EXCEPT !.daysShown = (m.freq # "oneshot"),
              !.dateShown = (m.freq = "oneshot"),
              !.textShown = (m.actionType = "scroll"),
              !.durationLabel = IF m.durType = "loops" THEN "Count (Loops)"
                                ELSE "Value (Sec)"]

\* the values the user gives a modal field in the exploration
ModalChoice(f) ==
    CASE f = "freq" -> {"daily", "hourly", "oneshot"}
      [] f = "actionType" -> {"scroll", "blink"}
      [] f = "text" -> {0, TEXT_LIMIT, TEXT_LIMIT + 1}
      [] OTHER -> {}

\* the day buttons the user clicks in the exploration: one of the default
\* days of a new alarm and one outside them
ClickedDays == {0, 5}

\* a faulty variant: the day is pushed without looking for it
ToggleDayPush(sel, btn, day) ==
    [days |-> Append(sel, day), buttons |-> btn \cup {day}]

\* toggleDay on the pair (selectedDays, selected day buttons)
ToggleDay(sel, btn, day) ==
    IF \E i \in 1..Len(sel) : sel[i] = day
    THEN [days |-> SelectSeq(sel, LAMBDA d : d # day),
          buttons |-> btn \ {day}]
    ELSE [days |-> Append(sel, day), buttons |-> btn \cup {day}]

RECURSIVE ToggleDays(_, _, _)
\* [..].forEach(d => toggleDay(d))
ToggleDays(sel, btn, list) ==
    IF list = <<>> THEN [days |-> sel, buttons |-> btn]
    ELSE LET t == ToggleDay(sel, btn, Head(list))
         IN  ToggleDays(t.days, t.buttons, Tail(list))

\* the modal fields openAlarmModal populates from a record of the list
PopulateModal(a) ==
    [ResetModal EXCEPT
       !.title = "Edit Alarm",
       !.deleteShown = TRUE,
       !.name = a.name,
       !.time = IF a.schedule.time = "" THEN "07:00" ELSE a.schedule.time,
       !.freq = IF a.type = "oneshot" THEN "oneshot"
                ELSE IF "frequency" \in a.schedule.keys
                        /\ a.schedule.frequency # ""
                     THEN a.schedule.frequency ELSE "daily",
       !.date = IF "date" \in a.schedule.keys /\ a.schedule.date # ""
                THEN a.schedule.date ELSE Today,
       !.actionType = a.action.type,
       !.text = a.action.payload.text,
       !.color = IF a.action.payload.color = "" THEN "#ff0000"
                 ELSE a.action.payload.color,
       !.brightness = IF a.action.payload.brightness = 0 THEN 10
                      ELSE a.action.payload.brightness,
       !.briLabel = IF a.action.payload.brightness = 0 THEN 10
                    ELSE a.action.payload.brightness,
       !.durType = IF a.action.duration_type = "" THEN "seconds"
                   ELSE a.action.duration_type,
       !.duration = IF a.action.duration_sec = 0 THEN "60"
                    ELSE NumStr(a.action.duration_sec)]

\* a faulty variant: days kept for every repetitive alarm, not only daily
ScheduleObjectDaysKept(m, days) ==
    [time |-> m.time,
     frequency |-> IF m.freq = "oneshot" THEN "" ELSE m.freq,
     days |-> IF m.freq # "oneshot" THEN days ELSE <<>>,
     date |-> IF m.freq = "oneshot" THEN m.date ELSE "",
     undefined |->
         (IF m.freq = "oneshot" THEN {"frequency"} ELSE {})
         \cup (IF m.freq # "oneshot" THEN {} ELSE {"days"})
         \cup (IF m.freq = "oneshot" THEN {} ELSE {"date"})]

\* the schedule object saveAlarm builds; `undefined` names the members whose
\* value is undefined
ScheduleObject(m, days) ==
    [time |-> m.time,
     frequency |-> IF m.freq = "oneshot" THEN "" ELSE m.freq,
     days |-> IF m.freq = "daily" THEN days ELSE <<>>,
     date |-> IF m.freq = "oneshot" THEN m.date ELSE "",
     undefined |->
         (IF m.freq = "oneshot" THEN {"frequency"} ELSE {})
         \cup (IF m.freq = "daily" THEN {} ELSE {"days"})
         \cup (IF m.freq = "oneshot" THEN {} ELSE {"date"})]

\* JSON.stringify leaves out the members whose value is undefined
JsonSchedule(o) ==
    [keys |-> {"time", "frequency", "days", "date"} \ o.undefined,
     time |-> o.time, frequency |-> o.frequency, days |-> o.days,
     date |-> o.date]

\* a faulty variant: only a new alarm is submitted as enabled
BuildAlarmEditDisabled(m, days, id) ==
    [id |-> id,
     enabled |-> (id = ""),
     name |-> IF m.name = "" THEN "Alarm" ELSE m.name,
     type |-> IF m.freq = "oneshot" THEN "oneshot" ELSE "repetitive",
     schedule |-> JsonSchedule(ScheduleObject(m, days)),
     action |-> [type |-> m.actionType,
                 duration_type |-> m.durType,
                 duration_sec |-> ParseInt(m.duration).val,
                 payload |-> [text |-> m.text, color |-> m.color,
                              brightness |-> m.brightness]]]

\* the alarm saveAlarm submits for the modal's fields
BuildAlarm(m, days, id) ==
    [id |-> id,
     enabled |-> TRUE,
     name |-> IF m.name = "" THEN "Alarm" ELSE m.name,
     type |-> IF m.freq = "oneshot" THEN "oneshot" ELSE "repetitive",
     schedule |-> JsonSchedule(ScheduleObject(m, days)),
     action |-> [type |-> m.actionType,
                 duration_type |-> m.durType,
                 duration_sec |-> ParseInt(m.duration).val,
                 payload |-> [text |-> m.text, color |-> m.color,
                              brightness |-> m.brightness]]]

\* saveAlarm's validation lets the alarm through
TextAccepted(actionType, text) == ~(text > TEXT_LIMIT)

Refetched(set) == {[x EXCEPT !.refetched = TRUE] : x \in set}

\* renderAlarms: the buttons drawn for the list
Render(list) ==
    [i \in 1..Len(list) |-> [id |-> list[i].id, enabled |-> list[i].enabled]]

\* the settings variables no alarm step touches
settingsRest ==
    <<now, advances, lastTimerFire, inputs, activeTag, lastLog, clockPreview,
      datePreview, statusLog, statusRequests, statusResponses, nextSeq,
      shownSeq, saveRequests, saveReplies, nSaves, nEdits, server, apiLevel,
      lastChange, confirmedNo, step>>

\* fetchAlarms up to its first await
FetchAlarms ==
    /\ nFetches' = nFetches + 1
    /\ listRequests' = listRequests \cup {[n |-> nFetches + 1]}

\* switchTab('alarms')
SwitchToAlarms ==
    /\ nFetches < MaxFetches
    /\ FetchAlarms
    /\ astep' = OtherAlarmStep
    /\ UNCHANGED <<alarms, rendered, currentAlarmId, openedId, selectedDays,
                   dayButtons, modal, store, added, alarmRequests,
                   alarmReplies, listResponses, nRequests, nModalOps,
                   lastAlert>>
    /\ UNCHANGED <<settingsRest, lastEditTime, unsavedIcon>>

\* the clock answers GET /api/alarms with a copy of its list
ServerList(r) ==
    /\ listRequests' = listRequests \ {r}
    /\ listResponses' = listResponses \cup {[n |-> r.n, data |-> store]}
    /\ astep' = OtherAlarmStep
    /\ UNCHANGED <<alarms, rendered, currentAlarmId, openedId, selectedDays,
                   dayButtons, modal, store, added, alarmRequests,
                   alarmReplies, nRequests, nFetches, nModalOps, lastAlert>>
    /\ UNCHANGED <<settingsRest, lastEditTime, unsavedIcon>>

\* fetchAlarms after its awaits: the list is replaced and drawn
ReceiveList(p) ==
    /\ listResponses' = listResponses \ {p}
    /\ alarms' = p.data
    /\ rendered' = Render(p.data)
    /\ alarmRequests' = Refetched(alarmRequests)
    /\ alarmReplies' = Refetched(alarmReplies)
    /\ astep' = OtherAlarmStep
    /\ UNCHANGED <<currentAlarmId, openedId, selectedDays, dayButtons, modal,
                   store, added, listRequests, nRequests, nFetches, nModalOps,
                   lastAlert>>
    /\ UNCHANGED <<settingsRest, lastEditTime, unsavedIcon>>

\* fetch('/api/alarms') rejects: fetchAlarms' catch only logs to the console
ListFails(r) ==
    /\ listRequests' = listRequests \ {r}
    /\ astep' = OtherAlarmStep
    /\ UNCHANGED <<alarms, rendered, currentAlarmId, openedId, selectedDays,
                   dayButtons, modal, store, added, alarmRequests,
                   alarmReplies, listResponses, nRequests, nFetches, nModalOps,
                   lastAlert>>
    /\ UNCHANGED <<settingsRest, lastEditTime, unsavedIcon>>

\* saveAlarmRequest up to its first await: the payload is serialized and posted
PostAlarm(origin, cmd, id, alarm, before) ==
    /\ nRequests' = nRequests + 1
    /\ alarmRequests' = alarmRequests \cup
           {[n |-> nRequests + 1, origin |-> origin, cmd |-> cmd, id |-> id,
             alarm |-> alarm, before |-> before, refetched |-> FALSE]}

\* the list after toggleAlarmEnabled's assignment to the record it found
ToggledList(list, idx, state) == [list EXCEPT ![idx].enabled = state]

\* toggleAlarmEnabled(id, state), called by the i-th Enable/Disable button
ToggleAlarmEnabled(i) ==
    LET id == rendered[i].id
        state == ~rendered[i].enabled
        idx == IndexOf(alarms, id)
    IN  /\ nRequests < MaxRequests
        /\ idx # 0
        /\ alarms' = ToggledList(alarms, idx, state)
        /\ PostAlarm("toggle", "update", id, alarms'[idx], alarms)
        /\ astep' = OtherAlarmStep
        /\ UNCHANGED <<rendered, currentAlarmId, openedId, selectedDays,
                       dayButtons, modal, store, added, alarmReplies,
                       listRequests, listResponses, nFetches, nModalOps,
                       lastAlert>>
        /\ UNCHANGED <<settingsRest, lastEditTime, unsavedIcon>>

\* openAlarmModal(id); "" stands for a call without id
OpenAlarmModal(id) ==
    LET idx == IndexOf(alarms, id)
        found == id # "" /\ idx # 0
        a == alarms[idx]
        fields == IF found THEN PopulateModal(a)
                  ELSE IF id = ""
                       THEN [ResetModal EXCEPT !.title = "New Alarm",
                                               !.deleteShown = FALSE]
                       ELSE [ResetModal EXCEPT !.title = modal.title,
                                               !.deleteShown = modal.deleteShown]
        sel == IF found
               THEN IF "days" \in a.schedule.keys
                    THEN [days |-> a.schedule.days,
                          buttons |-> {a.schedule.days[k] :
                                           k \in 1..Len(a.schedule.days)}
                                      \cap Days]
                    ELSE [days |-> <<>>, buttons |-> {}]
               ELSE IF id = "" THEN ToggleDays(<<>>, {}, <<0, 1, 2, 3, 4>>)
                    ELSE [days |-> <<>>, buttons |-> {}]
    IN  /\ nModalOps < MaxModalOps
        /\ nModalOps' = nModalOps + 1
        /\ currentAlarmId' = id
        /\ openedId' = id
        /\ selectedDays' = sel.days
        /\ dayButtons' = sel.buttons
        /\ modal' = [ToggleSections(fields) EXCEPT !.visible = TRUE]
        /\ astep' = [OtherAlarmStep EXCEPT !.op = "open", !.id = id]
        /\ UNCHANGED <<alarms, rendered, store, added, alarmRequests,
                       alarmReplies, listRequests, listResponses, nRequests,
                       nFetches, lastAlert>>
        /\ UNCHANGED <<settingsRest, lastEditTime, unsavedIcon>>

\* closeModal()
CloseModal ==
    /\ modal.visible
    /\ modal' = [modal EXCEPT !.visible = FALSE]
    /\ astep' = OtherAlarmStep
    /\ UNCHANGED <<alarms, rendered, currentAlarmId, openedId, selectedDays,
                   dayButtons, store, added, alarmRequests, alarmReplies,
                   listRequests, listResponses, nRequests, nFetches, nModalOps,
                   lastAlert>>
    /\ UNCHANGED <<settingsRest, lastEditTime, unsavedIcon>>

\* a click on a day button of the open modal: toggleDay(day)
ToggleDayClick(day) ==
    LET t == ToggleDay(selectedDays, dayButtons, day)
    IN  /\ modal.visible
        /\ nModalOps < MaxModalOps
        /\ nModalOps' = nModalOps + 1
        /\ selectedDays' = t.days
        /\ dayButtons' = t.buttons
        /\ astep' = OtherAlarmStep
        /\ UNCHANGED <<alarms, rendered, currentAlarmId, openedId, modal,
                       store, added, alarmRequests, alarmReplies, listRequests,
                       listResponses, nRequests, nFetches, lastAlert>>
        /\ UNCHANGED <<settingsRest, lastEditTime, unsavedIcon>>

\* the user changes a field of the open modal: its change handler shows the
\* matching sections, and the input/change listener is markDirty
SetModalField(f, v) ==
    /\ modal.visible
    /\ nModalOps < MaxModalOps
    /\ modal[f] # v
    /\ nModalOps' = nModalOps + 1
    /\ modal' = ToggleSections([modal EXCEPT ![f] = v])
    /\ lastEditTime' = now
    /\ unsavedIcon' = TRUE
    /\ astep' = OtherAlarmStep
    /\ UNCHANGED <<alarms, rendered, currentAlarmId, openedId, selectedDays,
                   dayButtons, store, added, alarmRequests, alarmReplies,
                   listRequests, listResponses, nRequests, nFetches,
                   lastAlert>>
    /\ UNCHANGED settingsRest

\* a faulty variant: every save taken for a new alarm
CommandAlwaysAdd(id) == "add"

\* if (currentAlarmId) ... 'update' else ... 'add'
CommandFor(id) == IF id # "" THEN "update" ELSE "add"

\* saveAlarm up to its await
SaveAlarm ==
    LET accepted == TextAccepted(modal.actionType, modal.text)
        cmd == CommandFor(currentAlarmId)
        alarm == BuildAlarm(modal, selectedDays, currentAlarmId)
    IN  /\ modal.visible
        /\ accepted => nRequests < MaxRequests
        /\ IF accepted
           THEN /\ PostAlarm("save", cmd, currentAlarmId, alarm, alarms)
                /\ UNCHANGED lastAlert
           ELSE /\ lastAlert' = "Text too long (Max 250 chars)."
                /\ UNCHANGED <<nRequests, alarmRequests>>
        /\ astep' = [OtherAlarmStep EXCEPT
                       !.op = "saveAlarm", !.origin = "save", !.cmd = cmd,
                       !.id = currentAlarmId, !.submitted = accepted,
                       !.freq = modal.freq, !.actionType = modal.actionType,
                       !.text = modal.text, !.payload = alarm]
        /\ UNCHANGED <<alarms, rendered, currentAlarmId, openedId,
                       selectedDays, dayButtons, modal, store, added,
                       alarmReplies, listRequests, listResponses, nFetches,
                       nModalOps>>
        /\ UNCHANGED <<settingsRest, lastEditTime, unsavedIcon>>

\* deleteAlarm up to its await, the user confirming
DeleteAlarm ==
    /\ modal.visible
    /\ currentAlarmId # ""
    /\ nRequests < MaxRequests
    /\ PostAlarm("delete", "delete", currentAlarmId, NoPayload, alarms)
    /\ astep' = OtherAlarmStep
    /\ UNCHANGED <<alarms, rendered, currentAlarmId, openedId, selectedDays,
                   dayButtons, modal, store, added, alarmReplies, listRequests,
                   listResponses, nFetches, nModalOps, lastAlert>>
    /\ UNCHANGED <<settingsRest, lastEditTime, unsavedIcon>>

\* the clock handles POST /api/alarms through AlarmStore
ServerAlarms(q, persisted) ==
    LET accepted == StoreAccepts(store, q.cmd, q.id, q.alarm) /\ persisted
    IN  /\ alarmRequests' = alarmRequests \ {q}
        /\ store' = IF accepted
                    THEN StoreApply(store, q.cmd, q.id, q.alarm, added)
                    ELSE store
        /\ added' = IF accepted /\ q.cmd = "add" THEN added + 1 ELSE added
        /\ alarmReplies' = alarmReplies \cup
               {[n |-> q.n, origin |-> q.origin, cmd |-> q.cmd, id |-> q.id,
                 before |-> q.before, refetched |-> q.refetched,
                 ok |-> accepted]}
        /\ astep' = OtherAlarmStep
        /\ UNCHANGED <<alarms, rendered, currentAlarmId, openedId,
                       selectedDays, dayButtons, modal, listRequests,
                       listResponses, nRequests, nFetches, nModalOps,
                       lastAlert>>
        /\ UNCHANGED <<settingsRest, lastEditTime, unsavedIcon>>

\* a faulty variant: the reply is never looked at
RequestNeverFails(ok) == FALSE

\* if (!res.ok || data.status === 'error'): the reply makes saveAlarmRequest
\* throw
RequestFailed(ok) == ~ok

\* saveAlarmRequest resolves: its caller closes the modal (saveAlarm,
\* deleteAlarm) and calls fetchAlarms
AlarmRequestDone(r) ==
    /\ ~RequestFailed(r.ok)
    /\ nFetches < MaxFetches
    /\ alarmReplies' = alarmReplies \ {r}
    /\ modal' = IF r.origin = "toggle" THEN modal
                ELSE [modal EXCEPT !.visible = FALSE]
    /\ FetchAlarms
    /\ astep' = [OtherAlarmStep EXCEPT
                   !.op = "done", !.origin = r.origin, !.cmd = r.cmd,
                   !.id = r.id, !.before = r.before,
                   !.refetched = r.refetched]
    /\ UNCHANGED <<alarms, rendered, currentAlarmId, openedId, selectedDays,
                   dayButtons, store, added, alarmRequests, listResponses,
                   nRequests, nModalOps, lastAlert>>
    /\ UNCHANGED <<settingsRest, lastEditTime, unsavedIcon>>

\* saveAlarmRequest throws: the caller does nothing more
AlarmRequestThrows(origin, cmd, id, before, refetched) ==
    /\ astep' = [OtherAlarmStep EXCEPT
                   !.op = "failed", !.origin = origin, !.cmd = cmd,
                   !.id = id, !.before = before, !.refetched = refetched]
    /\ UNCHANGED <<alarms, rendered, currentAlarmId, openedId, selectedDays,
                   dayButtons, modal, store, added, listRequests,
                   listResponses, nRequests, nFetches, nModalOps>>
    /\ UNCHANGED <<settingsRest, lastEditTime, unsavedIcon>>

\* the reply is an error: saveAlarmRequest alerts the message and throws
AlarmRequestRefused(r) ==
    /\ RequestFailed(r.ok)
    /\ alarmReplies' = alarmReplies \ {r}
    /\ UNCHANGED alarmRequests
    /\ lastAlert' = "Error: message"
    /\ AlarmRequestThrows(r.origin, r.cmd, r.id, r.before, r.refetched)

\* fetch rejects with a TypeError, whose message is not empty: no alert
AlarmRequestLost(q) ==
    /\ alarmRequests' = alarmRequests \ {q}
    /\ UNCHANGED <<alarmReplies, lastAlert>>
    /\ AlarmRequestThrows(q.origin, q.cmd, q.id, q.before, q.refetched)

\* ------------------------------------------------------------------------
\* Specifications
\* ------------------------------------------------------------------------
\* the alarm manager as the page is loaded
AlarmInit ==
    /\ alarms = <<>>
    /\ rendered = <<>>
    /\ currentAlarmId = ""
    /\ openedId = ""
    /\ selectedDays = <<>>
    /\ dayButtons = {}
    /\ modal = ResetModal
    /\ store = InitStore
    /\ added = 0
    /\ alarmRequests = {}
    /\ alarmReplies = {}
    /\ listRequests = {}
    /\ listResponses = {}
    /\ nRequests = 0
    /\ nFetches = 0
    /\ nModalOps = 0
    /\ lastAlert = ""
    /\ astep = OtherAlarmStep

Init == SettingsInit /\ AlarmInit

AlarmNext ==
    \/ SwitchToAlarms
    \/ \E r \in listRequests : ServerList(r)
    \/ \E p \in listResponses : ReceiveList(p)
    \/ \E r \in listRequests : ListFails(r)
    \/ \E i \in 1..Len(rendered) : ToggleAlarmEnabled(i)
    \/ \E id \in {""} \cup {rendered[i].id : i \in 1..Len(rendered)} :
           OpenAlarmModal(id)
    \/ CloseModal
    \/ \E day \in ClickedDays : ToggleDayClick(day)
    \/ \E f \in {"freq", "actionType", "text"} : \E v \in ModalChoice(f) :
           SetModalField(f, v)
    \/ SaveAlarm
    \/ DeleteAlarm
    \/ \E q \in alarmRequests : \E persisted \in BOOLEAN :
           ServerAlarms(q, persisted)
    \/ \E r \in alarmReplies : AlarmRequestDone(r)
    \/ \E r \in alarmReplies : AlarmRequestRefused(r)
    \/ \E q \in alarmRequests : AlarmRequestLost(q)

SettingsNext ==
    \/ TimerFire /\ UNCHANGED alarmVars
    \/ \E r \in statusRequests : ServerStatus(r) /\ UNCHANGED alarmVars
    \/ \E p \in statusResponses : ProcessStatus(p) /\ UNCHANGED alarmVars
    \/ \E r \in statusRequests : StatusFails(r) /\ UNCHANGED alarmVars
    \/ \E f \in SettingsInputs : \E v \in UserChoice(f) :
           EditInput(f, v) /\ UNCHANGED alarmVars
    \/ \E tag \in FocusTags : FocusChange(tag) /\ UNCHANGED alarmVars
    \/ \E d \in ClockSteps : Advance(d) /\ UNCHANGED alarmVars
    \/ SaveStart /\ UNCHANGED alarmVars
    \/ \E q \in saveRequests : \E persisted \in BOOLEAN :
           ServerSettings(q, persisted) /\ UNCHANGED alarmVars
    \/ \E r \in saveReplies : SaveResolves(r) /\ UNCHANGED alarmVars
    \/ \E q \in saveRequests : RequestLost(q) /\ UNCHANGED alarmVars

\* the settings page alone
SettingsSpec == Init /\ [][SettingsNext]_vars

\* the alarm manager alone
AlarmPageInit == Init /\ apiLevel = "full"

AlarmSpec == AlarmPageInit /\ [][AlarmNext]_vars

\* ------------------------------------------------------------------------
\* Properties of the settings page
\* ------------------------------------------------------------------------
Processed == step.op = "process"

\* a settings input shows the value a status response carries for it
Carries(data, f) ==
    CASE f = "color_seconds" ->
             Has(data, "seconds_color") /\ data.seconds_color # ""
      [] f = "timezone_offset" -> Has(data, "timezone_offset")
      [] f = "blink_colon" -> Has(data, "blink_mode")
      [] f = "rotation" -> Has(data, "rotation")
      [] OTHER -> TRUE

Shows(inp, data, f) ==
    CASE f = "brightness" -> inp.brightness = (data.brightness + 5) \div 10
      [] f = "color_digits" -> inp.color_digits = data.color
      [] f = "color_colon" -> inp.color_colon = data.colon_color
      [] f = "color_seconds" -> inp.color_seconds = data.seconds_color
      [] f = "format_mode" -> ParseInt(inp.format_mode) = Num(data.mode)
      [] f = "twelve_hour" -> (inp.twelve_hour = "true") = data.twelve_hour
      [] f = "timezone_offset" ->
             ParseInt(inp.timezone_offset) = Num(data.timezone_offset)
      [] f = "blink_colon" -> inp.blink_colon = (data.blink_mode > 0)
      [] f = "rotation" -> inp.rotation = data.rotation

\* C1: a status response def_fetch processes less than UNSAVED_TIMEOUT after
\* lastEditTime was stamped writes none of the settings inputs.
EditWindowProtects ==
    (Processed /\ now - lastEditTime < UNSAVED_TIMEOUT) => step.written = {}

\* C1 witness: a response processed inside the window of an edit, with no
\* input focused, and the edited value still in place.
EditWindowWitness ==
    /\ Processed
    /\ lastChange.no > 0
    /\ lastEditTime = lastChange.at
    /\ now - lastEditTime < UNSAVED_TIMEOUT
    /\ activeTag = "BODY"
    /\ inputs = lastChange.inputs

\* C2: a value the user changed is not overwritten by a poll refresh until a
\* save that included it has been accepted or UNSAVED_TIMEOUT has passed since
\* the change, also when the change falls into the flight of an earlier save.
NotClobberedMidEdit ==
    (/\ Processed
     /\ lastChange.no > confirmedNo
     /\ now - lastChange.at < UNSAVED_TIMEOUT)
    => inputs[lastChange.field] = lastChange.inputs[lastChange.field]

StaleDiscarded == (Processed /\ step.stale) => step.written = {}

\* C5: a def_fetch cycle begins only when no earlier cycle is outstanding, and
\* responses are applied in the order of their requests.
NoOverlap ==
    [][/\ nextSeq' > nextSeq =>
              statusRequests = {} /\ statusResponses = {}
       /\ shownSeq' # shownSeq => shownSeq' > shownSeq]_vars

\* C6: a save that fails in transport or that the clock answers with an error
\* is reported as an error, leaves lastEditTime and the unsaved indicator as
\* they were and triggers no refresh.
FailedSaveStaysUnconfirmed ==
    [][(step'.op = "save" /\ step' # step
        /\ step'.outcome \in {"error", "failed"})
       => /\ lastLog' = "Error saving settings."
          /\ lastEditTime' = lastEditTime
          /\ unsavedIcon' = unsavedIcon
          /\ nextSeq' = nextSeq]_vars

\* C8: an edit with an out-of-domain field is rejected whole: the clock's
\* configuration does not change and the edit is not reported as saved.
InvalidEditRejected ==
    [][/\ \A q \in saveRequests :
              (q \notin saveRequests' /\ ~ValidEdit(q.settings))
              => server' = server
       /\ \A r \in saveReplies :
              (r \notin saveReplies' /\ ~ValidEdit(r.settings))
              => lastLog' # "Settings saved."]_vars

\* C11: a processed status response either leaves every settings input as it
\* was or leaves every settings input holding the value of that one response;
\* it never writes some inputs and leaves the others.
NoTornRefresh ==
    Processed =>
        \/ step.written = {}
        \/ /\ step.written = SettingsInputs
           /\ \A f \in SettingsInputs :
                  Carries(step.data, f) /\ Shows(inputs, step.data, f)

\* C12: every status response def_fetch processes sets the clock preview, the
\* date pane and the log pane from that response, whether or not the edit
\* window is open and whatever element has focus.
ReadNeverBlocked ==
    Processed =>
        /\ clockPreview = ClockText(step.data.time)
        /\ datePreview = IF Has(step.data, "date")
                         THEN DateText(step.data.date) ELSE <<>>
        /\ Has(step.data, "logs") => statusLog = LogText(step.data.logs)

\* C12 witness: a response shown in the panes while an input has focus inside
\* the window of an edit, the settings inputs being left alone.
ReadInsideWindowWitness ==
    /\ Processed
    /\ lastChange.no > 0
    /\ now - lastEditTime < UNSAVED_TIMEOUT
    /\ activeTag = "INPUT"
    /\ step.written = {}
    /\ Has(step.data, "logs")
    /\ clockPreview = ClockText(step.data.time)
    /\ statusLog = LogText(step.data.logs)

\* ------------------------------------------------------------------------
\* Properties of the alarm manager
\* ------------------------------------------------------------------------
\* C7: after an alarm update that failed (an error reply or a transport
\* failure), every alarm in the client's list has the fields it had before the
\* operation started (no list being fetched in between).
FailedUpdateLeavesList ==
    (astep.op = "failed" /\ astep.cmd = "update" /\ ~astep.refetched)
    => alarms = astep.before

\* C9: the schedule of every alarm saveAlarm submits is complete for, and
\* restricted to, its kind.
SubmittedScheduleMatchesKind ==
    (astep.op = "saveAlarm" /\ astep.submitted)
    => LET a == astep.payload
           k == a.schedule.keys
       IN  /\ (a.type = "oneshot") <=> (astep.freq = "oneshot")
           /\ astep.freq = "oneshot" => k = {"time", "date"}
           /\ astep.freq = "daily" =>
                  k = {"time", "frequency", "days"}
                  /\ a.schedule.frequency = "daily"
           /\ astep.freq = "hourly" =>
                  k = {"time", "frequency"}
                  /\ a.schedule.frequency = "hourly"

\* C9 witness: an hourly alarm was submitted while days were selected.
HourlySubmittedWitness ==
    /\ astep.op = "saveAlarm"
    /\ astep.submitted
    /\ astep.freq = "hourly"
    /\ selectedDays # <<>>
    /\ \E q \in alarmRequests : q.origin = "save" /\ q.alarm = astep.payload

\* C10: saveAlarm submits a scroll alarm only when its text is non-empty and
\* at most TEXT_LIMIT characters long, and the text never keeps an alarm of
\* another action kind from being submitted.
TextRuleForScrollOnly ==
    astep.op = "saveAlarm"
    => /\ (astep.actionType = "scroll" /\ astep.submitted)
          => (astep.text > 0 /\ astep.text <= TEXT_LIMIT)
       /\ astep.actionType # "scroll" => astep.submitted

\* C13: a request saveAlarm posts is an update carrying the id the modal was
\* last opened for, or an add carrying no id when it was opened without one;
\* a request deleteAlarm posts is a delete for the id the modal was last
\* opened for.
IdStableAcrossEdits ==
    [][\A q \in alarmRequests' :
           q.n \notin {r.n : r \in alarmRequests} =>
           /\ q.origin = "save" =>
                  /\ q.cmd = (IF openedId = "" THEN "add" ELSE "update")
                  /\ q.id = openedId
                  /\ q.alarm.id = openedId
           /\ q.origin = "delete" =>
                  /\ q.cmd = "delete"
                  /\ openedId # ""
                  /\ q.id = openedId]_vars

\* C13 witness: an update for a2 is in flight, a2 being the alarm the modal
\* was opened for last, after at least one other operation on the modal.
UpdateForOpenedWitness ==
    \E q \in alarmRequests :
        /\ q.origin = "save"
        /\ q.cmd = "update"
        /\ q.id = "a2"
        /\ openedId = "a2"
        /\ nModalOps >= 2

\* C14: def_fetch processing a status response while the focused element is
\* an INPUT or a SELECT changes no settings input, however long ago the last
\* edit was and also right after a save has completed.
FocusGuard ==
    [][(step'.op = "process" /\ activeTag \in {"INPUT", "SELECT"})
       => (inputs' = inputs /\ step'.written = {})]_vars

\* C14 witness: a response processed with a SELECT focused after a save has
\* completed and reset lastEditTime, the window test passing.
FocusAfterSaveWitness ==
    /\ Processed
    /\ activeTag = "SELECT"
    /\ nSaves > 0
    /\ lastEditTime = 0
    /\ now - lastEditTime > UNSAVED_TIMEOUT
    /\ step.written = {}
    /\ \E f \in SettingsInputs : ~Shows(inputs, step.data, f)

\* C15: when the request of saveAlarm or deleteAlarm fails, by an error reply
\* or in transport, the modal and currentAlarmId stay as they are and
\* fetchAlarms is not called.
CloseOnlyAfterSuccess ==
    [][/\ \A r \in alarmReplies :
              (/\ r.n \notin {x.n : x \in alarmReplies'}
               /\ ~r.ok
               /\ r.origin \in {"save", "delete"})
              => /\ modal' = modal
                 /\ currentAlarmId' = currentAlarmId
                 /\ nFetches' = nFetches
                 /\ listRequests' = listRequests
       /\ \A q \in alarmRequests :
              (/\ q.n \notin {x.n : x \in alarmRequests'}
               /\ q.n \notin {x.n : x \in alarmReplies'}
               /\ q.origin \in {"save", "delete"})
              => /\ modal' = modal
                 /\ currentAlarmId' = currentAlarmId
                 /\ nFetches' = nFetches
                 /\ listRequests' = listRequests]_vars

\* C15 witness: the clock refused an update from saveAlarm; the modal is
\* still open on the same alarm and no list request is out.
RefusedSaveWitness ==
    /\ astep.op = "failed"
    /\ astep.origin = "save"
    /\ astep.cmd = "update"
    /\ lastAlert = "Error: message"
    /\ modal.visible
    /\ currentAlarmId = astep.id
    /\ listRequests = {}

\* C16: an update saveAlarm posts carries enabled = true, the id, and
\* otherwise only what the modal's fields hold at that moment.
UpdateIsFullReplace ==
    [][\A q \in alarmRequests' :
           (/\ q.n \notin {r.n : r \in alarmRequests}
            /\ q.origin = "save"
            /\ q.cmd = "update")
           => /\ DOMAIN q.alarm =
                     {"id", "enabled", "name", "type", "schedule", "action"}
              /\ q.alarm.enabled = TRUE
              /\ q.alarm.id = currentAlarmId
              /\ q.alarm.name = (IF modal.name = "" THEN "Alarm"
                                 ELSE modal.name)
              /\ q.alarm.type = (IF modal.freq = "oneshot" THEN "oneshot"
                                 ELSE "repetitive")
              /\ q.alarm.schedule.time = modal.time
              /\ q.alarm.action.type = modal.actionType
              /\ q.alarm.action.duration_type = modal.durType
              /\ q.alarm.action.duration_sec = ParseInt(modal.duration).val
              /\ q.alarm.action.payload =
                     [text |-> modal.text, color |-> modal.color,
                      brightness |-> modal.brightness]]_vars

\* C16 witness: an update for a2 is in flight carrying enabled = true while
\* the client's list holds a2 as disabled.
DisabledSubmittedEnabledWitness ==
    \E q \in alarmRequests :
        /\ q.origin = "save"
        /\ q.cmd = "update"
        /\ q.id = "a2"
        /\ q.alarm.enabled
        /\ \E i \in 1..Len(alarms) :
               alarms[i].id = "a2" /\ ~alarms[i].enabled

DaySet(sel) == {sel[i] : i \in 1..Len(sel)}

\* C17: selectedDays holds no day twice; a day of 0..6 is in selectedDays
\* exactly when its button is marked selected; toggling a day twice gives the
\* selection back; and openAlarmModal without id leaves the days 0..4.
DaySelectionConsistent ==
    /\ \A i, j \in 1..Len(selectedDays) :
           i # j => selectedDays[i] # selectedDays[j]
    /\ \A d \in Days : d \in DaySet(selectedDays) <=> d \in dayButtons
    /\ \A d \in Days :
           LET once == ToggleDay(selectedDays, dayButtons, d)
               twice == ToggleDay(once.days, once.buttons, d)
           IN  /\ DaySet(once.days) # DaySet(selectedDays)
               /\ DaySet(twice.days) = DaySet(selectedDays)
               /\ Len(twice.days) = Len(selectedDays)
               /\ twice.buttons = dayButtons
    /\ (astep.op = "open" /\ astep.id = "")
           => /\ selectedDays = <<0, 1, 2, 3, 4>>
              /\ dayButtons = {0, 1, 2, 3, 4}

\* C17 witness: the modal opened for a new alarm, then Monday toggled off and
\* Saturday toggled on.
ToggledDaysWitness ==
    /\ openedId = ""
    /\ modal.visible
    /\ selectedDays = <<1, 2, 3, 4, 5>>
    /\ dayButtons = {1, 2, 3, 4, 5}

====
